---- MODULE Spec2Model ----
(***************************************************************************)
(* Batch-collapse retention timer (retention.go).                          *)
(*                                                                         *)
(* The source holds two variants of BatchCollapse: the keyed one           *)
(* (Values map, lines 1-119) and the single-slot one (Value, lines         *)
(* 121-228).  A behaviour of this model is one engine instance of one      *)
(* variant, chosen in Init, together with its driver goroutine, callers    *)
(* of Collapse and callers of Cancel.                                      *)
(*                                                                         *)
(* Time is discrete, in units of the driver's polling interval (10 ms),    *)
(* and unbounded: every timestamp (lastExec, nextExec, the end of the      *)
(* driver's sleep) is kept as its offset from the current instant, so      *)
(* time.Now() is always 0 and a Tick moves every stored timestamp one unit *)
(* into the past.  A timestamp that is already so old that no comparison   *)
(* of the code can tell it from an older one is left where it is.          *)
(* Statements that follow each other without a call that can take time     *)
(* read the same instant; time may pass at every other point: while a      *)
(* goroutine waits for the mutex, while ExecuteFunc runs, between the      *)
(* driver's ctx.Done() check and its mutex.Lock().                         *)
(*                                                                         *)
(* A collapsed payload is the sequence number of the Collapse call that    *)
(* carries it (never nil), so every call's value can be told apart from    *)
(* every other.                                                            *)
(***************************************************************************)
EXTENDS Integers, FiniteSets

\* ---- bounds of the model ----
MaxCalls == 3

\* ---- inputs ----
Keys == {"a", "b"}
CancelCallers == {"c1", "c2"}
RetentionDurations == {0, 1, 2}
MaxDurations == {1, 3}

\* ---- program constants ----
PollInterval == 1
now == 0
Nil == 0
Driver == "driver"
Free == "free"
NoKey == "none"

Procs == {Driver} \cup CancelCallers
Payloads == 1..MaxCalls

VARIABLES
    variant,        \* "keyed" or "single": which BatchCollapse this instance is
    conf,           \* Config: RetentionDuration, MaxDuration, ExecuteFunc
    Values,         \* keyed: map key -> value (Nil = key absent)
    Value,          \* single-slot: the value (Nil = nothing pending)
    IsCanceled,
    lastExec,
    nextExec,
    ctxDone,        \* ctx.Done() is closed
    mutex,          \* Free or the goroutine holding bc.mutex
    pc,             \* position of the driver and of every Cancel caller
    todo,           \* keys the range loop of a goroutine's doProcess has not yielded yet
    cur,            \* key whose value a goroutine's ExecuteFunc call is running with
    wakeAt,         \* end of the driver's time.Sleep
    calls,          \* number of Collapse calls made
    delivered,      \* history: payload -> number of ExecuteFunc calls that got it
    snap,           \* history: payloads pending when a goroutine's pass took the lock
    got,            \* history: payloads a goroutine's pass has handed to ExecuteFunc
    lastCollapseAt, \* history: time of the latest Collapse call (construction at first)
    late,           \* history: payloads of the Collapse calls made with IsCanceled true
    stale           \* history: pending payloads stored by a Collapse call made more than MaxDuration after lastExec

vars == <<variant, conf, Values, Value, IsCanceled, lastExec, nextExec, ctxDone,
          mutex, pc, todo, cur, wakeAt, calls, delivered, snap, got, lastCollapseAt,
          late, stale>>

Config == [RetentionDuration : RetentionDurations,
           MaxDuration : MaxDurations,
           ExecuteFunc : {"nil", "func"}]

RetentionDuration == conf.RetentionDuration
MaxDuration == conf.MaxDuration
ExecuteFunc == conf.ExecuteFunc

\* t.Before(u)
Before(t, u) == t < u

\* KeyExists: _, ok := bc.Values[key]
KeyExists(key) == Values[key] # Nil

PendingKeys == {k \in Keys : KeyExists(k)}
PendingPayloads == IF variant = "keyed" THEN {Values[k] : k \in PendingKeys}
                   ELSE {Value} \ {Nil}

\* forceProcess: Cancel calls doProcess(true), the driver loop doProcess(false)
Force(p) == p # Driver

\* Mutant of ShouldFlush: the test bc.ExecuteFunc != nil is missing.
ShouldFlushNoNilTest(key, forceProcess) ==
    /\ KeyExists(key)
    /\ \/ forceProcess
       \/ Before(nextExec, now)
       \/ Before(lastExec + MaxDuration, now)

\* Mutant of ShouldFlush: the retention window counts as elapsed at its last
\* instant (!After in place of Before).
ShouldFlushEarly(key, forceProcess) ==
    /\ KeyExists(key)
    /\ ExecuteFunc # "nil"
    /\ \/ forceProcess
       \/ nextExec <= now
       \/ Before(lastExec + MaxDuration, now)

\* The condition of doProcess for one entry of the range loop.
ShouldFlush(key, forceProcess) ==
    /\ KeyExists(key)
    /\ ExecuteFunc # "nil"
    /\ \/ forceProcess
       \/ Before(nextExec, now)
       \/ Before(lastExec + MaxDuration, now)

\* The condition of the single-slot driver closure doProcess.
ShouldFlushSlot ==
    /\ Value # Nil
    /\ ExecuteFunc # "nil"
    /\ \/ Before(nextExec, now)
       \/ Before(lastExec + MaxDuration, now)

\* The condition of the single-slot Cancel.
ShouldFlushOnCancel ==
    /\ Value # Nil
    /\ ExecuteFunc # "nil"

\* CreateBatchCollapse: the state right after construction, at time 0.
Init ==
    /\ variant \in {"keyed", "single"}
    /\ conf \in Config
    /\ Values = [k \in Keys |-> Nil]
    /\ Value = Nil
    /\ IsCanceled = FALSE
    /\ lastExec = now
    /\ nextExec = now + conf.RetentionDuration
    /\ ctxDone = FALSE
    /\ mutex = Free
    /\ pc = [p \in Procs |-> IF p = Driver THEN "sleep" ELSE "idle"]
    /\ todo = [p \in Procs |-> {}]
    /\ cur = [p \in Procs |-> NoKey]
    /\ wakeAt = now + PollInterval
    /\ calls = 0
    /\ delivered = [v \in Payloads |-> 0]
    /\ snap = [p \in Procs |-> {}]
    /\ got = [p \in Procs |-> {}]
    /\ lastCollapseAt = now
    /\ late = {}
    /\ stale = {}

\* A timestamp t one time unit later, seen from the new current instant;
\* oldest is the offset below which the code's comparisons cannot tell
\* timestamps apart.
Older(t, oldest) == IF t - 1 < oldest THEN oldest ELSE t - 1

\* One time unit passes.
Tick ==
    /\ lastExec' = Older(lastExec, 0 - (MaxDuration + 1))
    /\ nextExec' = Older(nextExec, 0 - 1)
    /\ wakeAt' = Older(wakeAt, 0)
    /\ lastCollapseAt' = Older(lastCollapseAt, 0 - (RetentionDuration + 1))
    /\ UNCHANGED <<variant, conf, Values, Value, IsCanceled, ctxDone, mutex, pc, todo,
                   cur, calls, delivered, snap, got, late, stale>>

\* Mutant of Stored: the last write wins.
StoredLastWins(key, value) == [Values EXCEPT ![key] = value]

\* The map after `if !bc.KeyExists(key) { bc.Values[key] = value }`.
Stored(key, value) ==
    IF ~KeyExists(key) THEN [Values EXCEPT ![key] = value] ELSE Values

\* The slot after `if bc.Value == nil { bc.Value = value }`.
StoredSlot(value) == IF Value = Nil THEN value ELSE Value

\* Mutant of Collapse: the call restarts the MaxDuration ceiling as well.
CollapseTouch(key) ==
    /\ variant = "keyed"
    /\ calls < MaxCalls
    /\ mutex = Free
    /\ Values' = Stored(key, calls + 1)
    /\ nextExec' = now + RetentionDuration
    /\ lastExec' = now
    /\ calls' = calls + 1
    /\ lastCollapseAt' = now
    /\ late' = IF IsCanceled THEN late \cup {calls + 1} ELSE late
    /\ stale' = IF ~KeyExists(key) /\ Before(lastExec + MaxDuration, now)
                 THEN stale \cup {calls + 1} ELSE stale
    /\ UNCHANGED <<variant, conf, Value, IsCanceled, ctxDone, mutex, pc,
                   todo, cur, wakeAt, delivered, snap, got>>

\* Collapse(key, value), keyed variant: the whole call, under the mutex.
Collapse(key) ==
    /\ variant = "keyed"
    /\ calls < MaxCalls
    /\ mutex = Free
    /\ Values' = Stored(key, calls + 1)
    /\ nextExec' = now + RetentionDuration
    /\ calls' = calls + 1
    /\ lastCollapseAt' = now
    /\ late' = IF IsCanceled THEN late \cup {calls + 1} ELSE late
    /\ stale' = IF ~KeyExists(key) /\ Before(lastExec + MaxDuration, now)
                 THEN stale \cup {calls + 1} ELSE stale
    /\ UNCHANGED <<variant, conf, Value, IsCanceled, lastExec, ctxDone, mutex, pc,
                   todo, cur, wakeAt, delivered, snap, got>>

\* Collapse(value), single-slot variant: the whole call, under the mutex.
CollapseSlot ==
    /\ variant = "single"
    /\ calls < MaxCalls
    /\ mutex = Free
    /\ Value' = StoredSlot(calls + 1)
    /\ nextExec' = now + RetentionDuration
    /\ calls' = calls + 1
    /\ lastCollapseAt' = now
    /\ late' = IF IsCanceled THEN late \cup {calls + 1} ELSE late
    /\ stale' = IF Value = Nil /\ Before(lastExec + MaxDuration, now)
                 THEN stale \cup {calls + 1} ELSE stale
    /\ UNCHANGED <<variant, conf, Values, IsCanceled, lastExec, ctxDone, mutex, pc,
                   todo, cur, wakeAt, delivered, snap, got>>

\* Mutant of DriverWake: the select has no ctx.Done() case.
DriverWakeNoStop ==
    /\ pc[Driver] = "sleep"
    /\ now >= wakeAt
    /\ pc' = [pc EXCEPT ![Driver] = "ready"]
    /\ UNCHANGED <<variant, conf, Values, Value, IsCanceled, lastExec, nextExec,
                   ctxDone, mutex, todo, cur, wakeAt, calls, delivered, snap, got,
                   lastCollapseAt, late, stale>>

\* Mutant of DriverWake: the branches of the select are swapped.
DriverWakeSwapped ==
    /\ pc[Driver] = "sleep"
    /\ now >= wakeAt
    /\ pc' = [pc EXCEPT ![Driver] = IF ctxDone THEN "ready" ELSE "stopped"]
    /\ UNCHANGED <<variant, conf, Values, Value, IsCanceled, lastExec, nextExec,
                   ctxDone, mutex, todo, cur, wakeAt, calls, delivered, snap, got,
                   lastCollapseAt, late, stale>>

\* executeIfCompleted: time.Sleep is over and the select reads ctx.Done().
DriverWake ==
    /\ pc[Driver] = "sleep"
    /\ now >= wakeAt
    /\ pc' = [pc EXCEPT ![Driver] = IF ctxDone THEN "stopped" ELSE "ready"]
    /\ UNCHANGED <<variant, conf, Values, Value, IsCanceled, lastExec, nextExec,
                   ctxDone, mutex, todo, cur, wakeAt, calls, delivered, snap, got,
                   lastCollapseAt, late, stale>>

\* Cancel, first statement: bc.ctxCancel().
CancelBegin(p) ==
    /\ p \in CancelCallers
    /\ pc[p] = "idle"
    /\ ctxDone' = TRUE
    /\ pc' = [pc EXCEPT ![p] = "ready"]
    /\ UNCHANGED <<variant, conf, Values, Value, IsCanceled, lastExec, nextExec,
                   mutex, todo, cur, wakeAt, calls, delivered, snap, got, lastCollapseAt, late, stale>>

\* Mutant of Lock: the mutex is re-entrant, its holder may lock it again.
LockReentrant(p) ==
    /\ pc[p] = "ready"
    /\ mutex \in {Free, p}
    /\ mutex' = p
    /\ pc' = [pc EXCEPT ![p] = IF variant = "keyed" THEN "iter" ELSE "check"]
    /\ todo' = [todo EXCEPT ![p] = IF variant = "keyed" THEN PendingKeys ELSE {}]
    /\ snap' = [snap EXCEPT ![p] = PendingPayloads]
    /\ got' = [got EXCEPT ![p] = {}]
    /\ UNCHANGED <<variant, conf, Values, Value, IsCanceled, lastExec, nextExec,
                   ctxDone, cur, wakeAt, calls, delivered, lastCollapseAt, late, stale>>

\* Mutant of Lock: the pass does not wait for the mutex to be free.
LockNoWait(p) ==
    /\ pc[p] = "ready"
    /\ mutex' = p
    /\ pc' = [pc EXCEPT ![p] = IF variant = "keyed" THEN "iter" ELSE "check"]
    /\ todo' = [todo EXCEPT ![p] = IF variant = "keyed" THEN PendingKeys ELSE {}]
    /\ snap' = [snap EXCEPT ![p] = PendingPayloads]
    /\ got' = [got EXCEPT ![p] = {}]
    /\ UNCHANGED <<variant, conf, Values, Value, IsCanceled, lastExec, nextExec,
                   ctxDone, cur, wakeAt, calls, delivered, lastCollapseAt, late, stale>>

\* bc.mutex.Lock() of a pass (doProcess, or the locked block of the single-slot Cancel).
\* In the keyed variant the range loop starts over the keys present now.
Lock(p) ==
    /\ pc[p] = "ready"
    /\ mutex = Free
    /\ mutex' = p
    /\ pc' = [pc EXCEPT ![p] = IF variant = "keyed" THEN "iter" ELSE "check"]
    /\ todo' = [todo EXCEPT ![p] = IF variant = "keyed" THEN PendingKeys ELSE {}]
    /\ snap' = [snap EXCEPT ![p] = PendingPayloads]
    /\ got' = [got EXCEPT ![p] = {}]
    /\ UNCHANGED <<variant, conf, Values, Value, IsCanceled, lastExec, nextExec,
                   ctxDone, cur, wakeAt, calls, delivered, lastCollapseAt, late, stale>>

\* Mutant of Iterate: the delete stands after the if, so an entry that is not
\* due is removed without being handed to ExecuteFunc.
IterateDrop(p, key) ==
    /\ variant = "keyed"
    /\ pc[p] = "iter"
    /\ mutex = p
    /\ key \in todo[p]
    /\ todo' = [todo EXCEPT ![p] = @ \ {key}]
    /\ IF ShouldFlush(key, Force(p))
       THEN /\ pc' = [pc EXCEPT ![p] = "exec"]
            /\ cur' = [cur EXCEPT ![p] = key]
            /\ delivered' = [delivered EXCEPT ![Values[key]] = @ + 1]
            /\ got' = [got EXCEPT ![p] = @ \cup {Values[key]}]
            /\ UNCHANGED Values
       ELSE /\ Values' = [Values EXCEPT ![key] = Nil]
            /\ UNCHANGED <<pc, cur, delivered, got>>
    /\ UNCHANGED <<variant, conf, Value, IsCanceled, lastExec, nextExec,
                   ctxDone, mutex, wakeAt, calls, snap, lastCollapseAt, late, stale>>

\* One iteration of the range loop of doProcess (keyed) up to the call of
\* ExecuteFunc: the map yields one of the remaining keys, in any order.
Iterate(p, key) ==
    /\ variant = "keyed"
    /\ pc[p] = "iter"
    /\ mutex = p
    /\ key \in todo[p]
    /\ todo' = [todo EXCEPT ![p] = @ \ {key}]
    /\ IF ShouldFlush(key, Force(p))
       THEN /\ pc' = [pc EXCEPT ![p] = "exec"]
            /\ cur' = [cur EXCEPT ![p] = key]
            /\ delivered' = [delivered EXCEPT ![Values[key]] = @ + 1]
            /\ got' = [got EXCEPT ![p] = @ \cup {Values[key]}]
       ELSE UNCHANGED <<pc, cur, delivered, got>>
    /\ UNCHANGED <<variant, conf, Values, Value, IsCanceled, lastExec, nextExec,
                   ctxDone, mutex, wakeAt, calls, snap, lastCollapseAt, late, stale>>

\* Mutant of ExecReturn: nextExec is not re-armed after the flush.
ExecReturnNoRearm(p) ==
    /\ variant = "keyed"
    /\ pc[p] = "exec"
    /\ mutex = p
    /\ lastExec' = now
    /\ Values' = [Values EXCEPT ![cur[p]] = Nil]
    /\ cur' = [cur EXCEPT ![p] = NoKey]
    /\ pc' = [pc EXCEPT ![p] = "iter"]
    /\ UNCHANGED <<variant, conf, Value, IsCanceled, nextExec, ctxDone, mutex, todo, wakeAt,
                   calls, delivered, snap, got, lastCollapseAt, late>>
    /\ stale' = stale \ {Values[cur[p]]}

\* Mutant of ExecReturn: the delete is missing.
ExecReturnKeep(p) ==
    /\ variant = "keyed"
    /\ pc[p] = "exec"
    /\ mutex = p
    /\ lastExec' = now
    /\ nextExec' = now + RetentionDuration
    /\ cur' = [cur EXCEPT ![p] = NoKey]
    /\ pc' = [pc EXCEPT ![p] = "iter"]
    /\ UNCHANGED <<variant, conf, Values, Value, IsCanceled, ctxDone, mutex, todo, wakeAt,
                   calls, delivered, snap, got, lastCollapseAt, late, stale>>

\* ExecuteFunc has returned in doProcess (keyed): the three statements after it.
ExecReturn(p) ==
    /\ variant = "keyed"
    /\ pc[p] = "exec"
    /\ mutex = p
    /\ lastExec' = now
    /\ nextExec' = now + RetentionDuration
    /\ Values' = [Values EXCEPT ![cur[p]] = Nil]
    /\ cur' = [cur EXCEPT ![p] = NoKey]
    /\ pc' = [pc EXCEPT ![p] = "iter"]
    /\ UNCHANGED <<variant, conf, Value, IsCanceled, ctxDone, mutex, todo, wakeAt,
                   calls, delivered, snap, got, lastCollapseAt, late>>
    /\ stale' = stale \ {Values[cur[p]]}

\* The single-slot driver closure doProcess, from the mutex.Lock() up to the
\* call of ExecuteFunc.
DriverCheckSlot ==
    /\ variant = "single"
    /\ pc[Driver] = "check"
    /\ mutex = Driver
    /\ IF ShouldFlushSlot
       THEN /\ pc' = [pc EXCEPT ![Driver] = "exec"]
            /\ delivered' = [delivered EXCEPT ![Value] = @ + 1]
            /\ got' = [got EXCEPT ![Driver] = @ \cup {Value}]
       ELSE /\ pc' = [pc EXCEPT ![Driver] = "unlock"]
            /\ UNCHANGED <<delivered, got>>
    /\ UNCHANGED <<variant, conf, Values, Value, IsCanceled, lastExec, nextExec,
                   ctxDone, mutex, todo, cur, wakeAt, calls, snap, lastCollapseAt, late, stale>>

\* ExecuteFunc has returned in the single-slot driver closure: the three
\* statements after it.
DriverExecReturnSlot ==
    /\ variant = "single"
    /\ pc[Driver] = "exec"
    /\ mutex = Driver
    /\ lastExec' = now
    /\ nextExec' = now + RetentionDuration
    /\ Value' = Nil
    /\ pc' = [pc EXCEPT ![Driver] = "unlock"]
    /\ UNCHANGED <<variant, conf, Values, IsCanceled, ctxDone, mutex, todo, cur,
                   wakeAt, calls, delivered, snap, got, lastCollapseAt, late>>
    /\ stale' = stale \ {Value}

\* The locked block of the single-slot Cancel up to the call of ExecuteFunc.
CancelCheckSlot(p) ==
    /\ variant = "single"
    /\ p \in CancelCallers
    /\ pc[p] = "check"
    /\ mutex = p
    /\ IF ShouldFlushOnCancel
       THEN /\ pc' = [pc EXCEPT ![p] = "exec"]
            /\ delivered' = [delivered EXCEPT ![Value] = @ + 1]
            /\ got' = [got EXCEPT ![p] = @ \cup {Value}]
       ELSE /\ pc' = [pc EXCEPT ![p] = "unlock"]
            /\ UNCHANGED <<delivered, got>>
    /\ UNCHANGED <<variant, conf, Values, Value, IsCanceled, lastExec, nextExec,
                   ctxDone, mutex, todo, cur, wakeAt, calls, snap, lastCollapseAt, late, stale>>

\* ExecuteFunc has returned in the single-slot Cancel: nothing is assigned,
\* the next statement is the mutex.Unlock().
CancelExecReturnSlot(p) ==
    /\ variant = "single"
    /\ p \in CancelCallers
    /\ pc[p] = "exec"
    /\ mutex = p
    /\ pc' = [pc EXCEPT ![p] = "unlock"]
    /\ UNCHANGED <<variant, conf, Values, Value, IsCanceled, lastExec, nextExec,
                   ctxDone, mutex, todo, cur, wakeAt, calls, delivered, snap, got,
                   lastCollapseAt, late, stale>>

\* The pass of goroutine p has reached its bc.mutex.Unlock().
AtUnlock(p) ==
    IF variant = "keyed" THEN pc[p] = "iter" /\ todo[p] = {} ELSE pc[p] = "unlock"

\* Mutant of Unlock: the pass stamps lastExec and nextExec at its end, whether
\* or not it has flushed anything.
UnlockStamp(p) ==
    /\ AtUnlock(p)
    /\ mutex = p
    /\ mutex' = Free
    /\ pc' = [pc EXCEPT ![p] = IF p = Driver THEN "sleep" ELSE "flag"]
    /\ wakeAt' = IF p = Driver THEN now + PollInterval ELSE wakeAt
    /\ snap' = [snap EXCEPT ![p] = IF p = Driver THEN {} ELSE @]
    /\ got' = [got EXCEPT ![p] = IF p = Driver THEN {} ELSE @]
    /\ lastExec' = now
    /\ nextExec' = now + RetentionDuration
    /\ UNCHANGED <<variant, conf, Values, Value, IsCanceled,
                   ctxDone, todo, cur, calls, delivered, lastCollapseAt, late, stale>>

\* bc.mutex.Unlock() at the end of a pass.  The driver goes back to time.Sleep,
\* a Cancel caller to its last statement.
Unlock(p) ==
    /\ AtUnlock(p)
    /\ mutex = p
    /\ mutex' = Free
    /\ pc' = [pc EXCEPT ![p] = IF p = Driver THEN "sleep" ELSE "flag"]
    /\ wakeAt' = IF p = Driver THEN now + PollInterval ELSE wakeAt
    /\ snap' = [snap EXCEPT ![p] = IF p = Driver THEN {} ELSE @]
    /\ got' = [got EXCEPT ![p] = IF p = Driver THEN {} ELSE @]
    /\ UNCHANGED <<variant, conf, Values, Value, IsCanceled, lastExec, nextExec,
                   ctxDone, todo, cur, calls, delivered, lastCollapseAt, late, stale>>

\* Cancel, last statement: bc.IsCanceled = true, written without the mutex.
SetCanceled(p) ==
    /\ p \in CancelCallers
    /\ pc[p] = "flag"
    /\ IsCanceled' = TRUE
    /\ pc' = [pc EXCEPT ![p] = "done"]
    /\ snap' = [snap EXCEPT ![p] = {}]
    /\ got' = [got EXCEPT ![p] = {}]
    /\ UNCHANGED <<variant, conf, Values, Value, lastExec, nextExec, ctxDone, mutex,
                   todo, cur, wakeAt, calls, delivered, lastCollapseAt, late, stale>>

Next ==
    \/ Tick
    \/ \E key \in Keys : Collapse(key)
    \/ CollapseSlot
    \/ DriverWake
    \/ \E p \in CancelCallers : CancelBegin(p)
    \/ \E p \in Procs : Lock(p)
    \/ \E p \in Procs, key \in Keys : Iterate(p, key)
    \/ \E p \in Procs : ExecReturn(p)
    \/ DriverCheckSlot
    \/ DriverExecReturnSlot
    \/ \E p \in CancelCallers : CancelCheckSlot(p)
    \/ \E p \in CancelCallers : CancelExecReturnSlot(p)
    \/ \E p \in Procs : Unlock(p)
    \/ \E p \in CancelCallers : SetCanceled(p)

Spec == Init /\ [][Next]_vars

\* ---- a running driver loop and no Cancel call, with fair scheduling ----
\* Every step of the driver goroutine.
DriverStep ==
    \/ DriverWake
    \/ Lock(Driver)
    \/ \E key \in Keys : Iterate(Driver, key)
    \/ ExecReturn(Driver)
    \/ DriverCheckSlot
    \/ DriverExecReturnSlot
    \/ Unlock(Driver)

NextNoCancel ==
    \/ Tick
    \/ \E key \in Keys : Collapse(key)
    \/ CollapseSlot
    \/ DriverStep

\* Time passes, the driver goroutine is scheduled and ExecuteFunc returns.
LiveSpec == Init /\ [][NextNoCancel]_vars /\ WF_vars(Tick) /\ WF_vars(DriverStep)

\* A payload is the sequence number of its Collapse call among the calls the
\* history still records: once call v is finished (its value is neither pending
\* nor in the snapshot of a running pass) the history drops it and the later
\* calls move down by one.  The engine's own fields only carry the renumbering.
Down(v, x) == IF x > v THEN x - 1 ELSE x

Forget(v) ==
    /\ v \in 1..calls
    /\ v \notin PendingPayloads
    /\ \A p \in Procs : v \notin snap[p] \cup got[p]
    /\ calls' = calls - 1
    /\ Values' = [k \in Keys |-> Down(v, Values[k])]
    /\ Value' = Down(v, Value)
    /\ delivered' = [x \in Payloads |->
                        IF x < v THEN delivered[x]
                        ELSE IF x < MaxCalls THEN delivered[x + 1] ELSE 0]
    /\ late' = {Down(v, x) : x \in late \ {v}}
    /\ stale' = {Down(v, x) : x \in stale \ {v}}
    /\ snap' = [p \in Procs |-> {Down(v, x) : x \in snap[p]}]
    /\ got' = [p \in Procs |-> {Down(v, x) : x \in got[p]}]
    /\ UNCHANGED <<variant, conf, IsCanceled, lastExec, nextExec, ctxDone, mutex,
                   pc, todo, cur, wakeAt, lastCollapseAt>>

\* A stream of Collapse calls that never ends: as LiveSpec, with the number of
\* calls the history records at one time bounded instead of the number of calls.
NextStream ==
    \/ NextNoCancel
    \/ \E v \in Payloads : Forget(v)

StreamSpec == Init /\ [][NextStream]_vars /\ WF_vars(Tick) /\ WF_vars(DriverStep)

\* ---- Cancel calls included, with fair scheduling ----
\* Every step of a Cancel call of goroutine p after its first statement.
CancelStep(p) ==
    \/ Lock(p)
    \/ \E key \in Keys : Iterate(p, key)
    \/ ExecReturn(p)
    \/ CancelCheckSlot(p)
    \/ CancelExecReturnSlot(p)
    \/ Unlock(p)
    \/ SetCanceled(p)

\* One goroutine calls Cancel, once, at any moment.
Canceller == "c1"

NextOneCancel ==
    \/ NextNoCancel
    \/ CancelBegin(Canceller)
    \/ CancelStep(Canceller)

\* Time passes, every goroutine is scheduled and ExecuteFunc returns.
CancelSpec ==
    /\ Init /\ [][NextOneCancel]_vars
    /\ WF_vars(Tick) /\ WF_vars(DriverStep) /\ WF_vars(CancelStep(Canceller))

\* ---- an ExecuteFunc that calls back into the same BatchCollapse ----
\* The ExecuteFunc call of goroutine p calls bc.Cancel(): ctxCancel(), then
\* doProcess(true), where p stands at bc.mutex.Lock() as in any other pass.
CallbackCancel(p) ==
    /\ pc[p] = "exec"
    /\ ctxDone' = TRUE
    /\ pc' = [pc EXCEPT ![p] = "ready"]
    /\ UNCHANGED <<variant, conf, Values, Value, IsCanceled, lastExec, nextExec,
                   mutex, todo, cur, wakeAt, calls, delivered, snap, got, lastCollapseAt, late, stale>>

\* The ExecuteFunc call of goroutine p calls bc.Collapse: p stands at the
\* bc.mutex.Lock() of Collapse; the call goes on as Collapse or CollapseSlot do,
\* once their guard holds.
CallbackCollapse(p) ==
    /\ pc[p] = "exec"
    /\ pc' = [pc EXCEPT ![p] = "collapse"]
    /\ UNCHANGED <<variant, conf, Values, Value, IsCanceled, lastExec, nextExec, ctxDone,
                   mutex, todo, cur, wakeAt, calls, delivered, snap, got, lastCollapseAt, late, stale>>

\* Every ExecuteFunc call returns only after its call of Cancel or Collapse on
\* the same BatchCollapse has returned.
NextReentrant ==
    \/ Tick
    \/ \E key \in Keys : Collapse(key)
    \/ CollapseSlot
    \/ DriverWake
    \/ \E p \in CancelCallers : CancelBegin(p)
    \/ \E p \in Procs : Lock(p)
    \/ \E p \in Procs, key \in Keys : Iterate(p, key)
    \/ DriverCheckSlot
    \/ \E p \in CancelCallers : CancelCheckSlot(p)
    \/ \E p \in Procs : Unlock(p)
    \/ \E p \in CancelCallers : SetCanceled(p)
    \/ \E p \in Procs : CallbackCancel(p)
    \/ \E p \in Procs : CallbackCollapse(p)

ReentrantSpec == Init /\ [][NextReentrant]_vars

TypeOK ==
    /\ variant \in {"keyed", "single"}
    /\ conf \in Config
    /\ Values \in [Keys -> Payloads \cup {Nil}]
    /\ Value \in Payloads \cup {Nil}
    /\ IsCanceled \in BOOLEAN
    /\ ctxDone \in BOOLEAN
    /\ mutex \in Procs \cup {Free}
    /\ lastExec \in (0 - (MaxDuration + 1))..0
    /\ nextExec \in (0 - 1)..RetentionDuration
    /\ wakeAt \in 0..PollInterval
    /\ calls \in 0..MaxCalls

\* ---- vocabulary of the properties ----
\* This step is the call of ExecuteFunc by goroutine p.
Delivers(p) == pc[p] \in {"iter", "check"} /\ pc'[p] = "exec"

\* This step is a Collapse call.
Collapses == calls' = calls + 1

\* The payloads handed to ExecuteFunc in this step.
DeliveredNow == {v \in Payloads : delivered'[v] > delivered[v]}

\* C1 -- First-write-wins, in both variants: a pending value is never replaced
\* by a later Collapse; it stays the stored value until it leaves the store, it
\* leaves only after ExecuteFunc was called with it, and every value handed to
\* ExecuteFunc is the stored one, never the payload of a later Collapse call.
C1_FirstWriteWins ==
    [][ /\ \A k \in Keys :
             KeyExists(k) =>
                \/ Values'[k] = Values[k]
                \/ Values'[k] = Nil /\ delivered[Values[k]] > 0
        /\ Value # Nil => (Value' = Value \/ (Value' = Nil /\ delivered[Value] > 0))
        /\ DeliveredNow \subseteq PendingPayloads
        /\ Collapses => PendingPayloads \subseteq PendingPayloads' ]_vars

\* C1 witness: three Collapse calls were made, the first value was flushed and
\* the two later ones were dropped: nothing else is pending or delivered.
C1_Witness ==
    /\ calls = 3
    /\ delivered[1] = 1 /\ delivered[2] = 0 /\ delivered[3] = 0
    /\ PendingPayloads = {}
    /\ \A p \in Procs : pc[p] # "exec"

\* C2 as stated -- with no Cancel, the driver hands a value to ExecuteFunc only
\* after the retention window of the latest Collapse call has elapsed.
C2_Original ==
    [][ (~ctxDone /\ Delivers(Driver)) =>
            Before(lastCollapseAt + RetentionDuration, now) ]_vars

\* C2 amended -- with a non-nil ExecuteFunc and no Cancel, a burst of Collapse calls for one key leads to
\* exactly one ExecuteFunc call: the value the burst stored is delivered once
\* quiet time follows, never a second time, and the driver delivers it only
\* after the retention window of the latest Collapse call has elapsed or after
\* more than MaxDuration has passed since lastExec.
C2_BurstCoalescing ==
    /\ [][ Delivers(Driver) =>
              /\ \/ Before(lastCollapseAt + RetentionDuration, now)
                 \/ Before(lastExec + MaxDuration, now)
              /\ \A v \in DeliveredNow : delivered'[v] = 1 ]_vars
    /\ \A v \in Payloads, n \in 0..MaxCalls :
          (ExecuteFunc # "nil" /\ v \in PendingPayloads /\ calls = n)
             ~> (delivered[v] = 1 \/ calls > n)

\* C2 witness: a burst of three Collapse calls for one key of the keyed variant
\* has ended in one ExecuteFunc call, with the first value.
C2_Witness ==
    /\ variant = "keyed"
    /\ calls = 3
    /\ delivered[1] = 1 /\ delivered[2] = 0 /\ delivered[3] = 0
    /\ PendingPayloads = {}
    /\ pc[Driver] = "sleep"

\* C3 -- Retention re-arm: every Collapse call, whatever its key and whether or
\* not it stores its value, sets nextExec to now + RetentionDuration; while the
\* latest Collapse call is no more than RetentionDuration old and no more than
\* MaxDuration has passed since lastExec, the driver delivers no entry of any key.
C3_RetentionRearm ==
    [][ /\ Collapses => nextExec' = now + RetentionDuration
        /\ Delivers(Driver) =>
              ~(now <= lastCollapseAt + RetentionDuration /\ now <= lastExec + MaxDuration)
      ]_vars

\* C3 witness: both keys are pending and undelivered three time units after
\* construction, with RetentionDuration 1, because a third Collapse call (for a
\* key that was already pending) has just re-armed the window.
C3_Witness ==
    /\ variant = "keyed"
    /\ ExecuteFunc # "nil"
    /\ RetentionDuration = 1 /\ MaxDuration = 3
    /\ lastExec = now - 3
    /\ calls = 3
    /\ PendingPayloads = {1, 2}
    /\ \A v \in Payloads : delivered[v] = 0
    /\ nextExec = now + RetentionDuration
    /\ pc[Driver] = "sleep" /\ ~ctxDone

\* The driver's pass examines a pending entry in this step.
DriverExamines ==
    \/ variant = "keyed" /\ pc[Driver] = "iter" /\ todo'[Driver] # todo[Driver]
    \/ variant = "single" /\ pc[Driver] = "check" /\ pc'[Driver] # "check" /\ Value # Nil

\* C4 as stated -- Max-duration ceiling: with a running driver loop, a non-nil
\* ExecuteFunc and no Cancel, a flush comes no later than MaxDuration after the
\* previous one (after construction for the first): a driver pass that examines
\* a pending entry at the instant lastExec + MaxDuration, the last one the
\* ceiling allows, flushes it.
C4_Original ==
    [][ (DriverExamines /\ ExecuteFunc # "nil" /\ ~ctxDone /\ now = lastExec + MaxDuration)
            => Delivers(Driver) ]_vars

\* C5 as stated -- Single-flush delivery, in both variants: no value is handed
\* to ExecuteFunc more than once, and once a flush is over (the mutex is free
\* again) the flushed value is not pending any more.
C5_Original ==
    \A v \in Payloads :
        /\ delivered[v] <= 1
        /\ (mutex = Free /\ delivered[v] > 0) => v \notin PendingPayloads

\* C6 as stated -- Cancel drains, with a non-nil ExecuteFunc: when the pass of a
\* Cancel call reaches its Unlock, the values it has handed to ExecuteFunc are
\* exactly the ones that were pending when it took the lock and the store holds
\* none of them, then or afterwards; and a Cancel call that has returned has
\* set IsCanceled.
C6_Original ==
    \A p \in CancelCallers :
        /\ (ExecuteFunc # "nil" /\ mutex = p /\ AtUnlock(p)) =>
              (got[p] = snap[p] /\ snap[p] \cap PendingPayloads = {})
        /\ (ExecuteFunc # "nil" /\ pc[p] = "flag") =>
              (got[p] = snap[p] /\ snap[p] \cap PendingPayloads = {})
        /\ pc[p] = "done" => IsCanceled

\* A step of goroutine p.
StepOf(p) == pc'[p] # pc[p] \/ todo'[p] # todo[p]

\* C7 -- Cancel on empty state, in both variants: a Cancel call whose pass finds
\* nothing pending hands nothing to ExecuteFunc and changes neither lastExec nor
\* nextExec in any of its steps, and its last step sets IsCanceled; the driver
\* loop may have exited before.
C7_CancelOnEmpty ==
    [][ \A p \in CancelCallers :
           (/\ StepOf(p)
            /\ \/ pc[p] = "ready" /\ PendingPayloads = {}
               \/ pc[p] \in {"iter", "check", "exec", "unlock", "flag"} /\ snap[p] = {})
           => /\ lastExec' = lastExec
              /\ nextExec' = nextExec
              /\ delivered' = delivered
              /\ pc'[p] # "exec"
              /\ pc[p] = "flag" => IsCanceled' ]_vars

\* C7 witness: a second Cancel call, made after the driver loop has exited,
\* has found nothing pending and has returned.
C7_Witness ==
    /\ pc[Driver] = "stopped"
    /\ pc["c1"] = "done"
    /\ pc["c2"] = "done"
    /\ ExecuteFunc # "nil"
    /\ calls = 0
    /\ IsCanceled

\* C8 as stated -- once IsCanceled is true, no pass of the driver loop hands a
\* value to ExecuteFunc.
C8_Original == [][ ~(IsCanceled /\ Delivers(Driver)) ]_vars

\* C9 as stated -- a value collapsed after Cancel has returned is stored, and it
\* stays pending until another Cancel call runs its forced pass: it leaves the
\* store only while a Cancel caller holds the mutex.
C9_Original ==
    [][ /\ (Collapses /\ IsCanceled /\ PendingPayloads = {}) =>
              (calls + 1 \in PendingPayloads' /\ nextExec' = now + RetentionDuration)
        /\ \A v \in late \cap PendingPayloads :
              v \in PendingPayloads' \/ mutex \in CancelCallers ]_vars

\* C10 -- Quiet-time flush, under LiveSpec (running driver loop, no Cancel,
\* ExecuteFunc returns): with a non-nil ExecuteFunc, if no further Collapse
\* call comes, every pending value is eventually handed to ExecuteFunc and the
\* pending state becomes empty.
C10_QuietTimeFlush ==
    \A v \in Payloads, n \in 0..MaxCalls :
        (ExecuteFunc # "nil" /\ v \in PendingPayloads /\ calls = n)
           ~> (calls > n \/ (PendingPayloads = {} /\ delivered[v] >= 1))

\* C10 witness: with no Cancel, the values of both keys were pending together
\* and the driver has flushed both; nothing is pending.
C10_Witness ==
    /\ variant = "keyed"
    /\ calls = 3
    /\ delivered[1] = 1 /\ delivered[2] = 1 /\ delivered[3] = 0
    /\ PendingPayloads = {}
    /\ ~ctxDone
    /\ pc[Driver] = "sleep"

\* C11 as stated -- keyed variant, running driver, non-nil ExecuteFunc (and
\* RetentionDuration above 0): however many Collapse calls keep arriving and
\* whichever order a pass yields the entries in, every pending entry is
\* eventually flushed (it leaves the store).
C11_Original ==
    \A k \in Keys :
        ( /\ variant = "keyed" /\ ExecuteFunc = "func" /\ RetentionDuration > 0
          /\ KeyExists(k) ) ~> ~KeyExists(k)

\* C12 as stated -- Flushed means removed, in both variants and on every flush
\* path: a goroutine that has handed values to ExecuteFunc under the mutex has
\* removed them from the pending state when it releases the mutex.
C12_Original ==
    [][ \A p \in Procs :
          (mutex = p /\ mutex' = Free) => got[p] \cap PendingPayloads' = {} ]_vars

\* C13 -- No silent drop: a pass works on everything that was stored when it
\* took the lock (nothing is inserted behind its back, and what it has not
\* handed to ExecuteFunc is still pending); a value leaves the store only in the
\* step in which the goroutine that handed it to ExecuteFunc comes back from
\* that call; and a Collapse call removes or replaces no pending value, it
\* stores its value exactly when the key is absent.
C13_NoSilentDrop ==
    [][ /\ \A v \in PendingPayloads \ PendingPayloads' :
              \E p \in Procs : mutex = p /\ pc[p] = "exec" /\ v \in got[p]
        /\ \A p \in Procs :
              /\ (mutex = Free /\ mutex' = p) => snap'[p] = PendingPayloads
              /\ mutex = p => /\ PendingPayloads \subseteq snap[p]
                              /\ snap[p] \ got[p] \subseteq PendingPayloads
        /\ (Collapses /\ variant = "keyed") =>
              \E k \in Keys :
                 Values' = [Values EXCEPT ![k] = IF @ = Nil THEN calls + 1 ELSE @]
        /\ (Collapses /\ variant = "single") =>
              Value' = IF Value = Nil THEN calls + 1 ELSE Value ]_vars

\* C13 witness: a driver pass that took the lock with two entries stored has
\* handed one to ExecuteFunc and removed it, and has examined the other and
\* left it pending.
C13_Witness ==
    /\ variant = "keyed"
    /\ mutex = Driver /\ pc[Driver] = "iter" /\ todo[Driver] = {}
    /\ snap[Driver] = {1, 2}
    /\ got[Driver] = {1}
    /\ PendingPayloads = {2}

\* C14 as stated -- Lock discipline: a goroutine writes the entries only while
\* it holds the mutex itself, and no goroutine writes IsCanceled while another
\* goroutine holds the mutex.
C14_Original ==
    [][ \A p \in Procs :
          StepOf(p) =>
             /\ (Values' # Values \/ Value' # Value) => mutex = p
             /\ IsCanceled' # IsCanceled => mutex \notin Procs \ {p} ]_vars

\* The goroutines whose ExecuteFunc call is running.
InFlight == {p \in Procs : pc[p] = "exec"}

\* C15 -- Serialized callbacks, in every interleaving: at most one ExecuteFunc
\* call is running at any moment, the goroutine running it holds the mutex, and
\* while it runs no Collapse call takes effect: nothing is inserted and nextExec
\* is not re-armed before the call has returned.
C15_SerializedCallbacks ==
    [][ /\ Cardinality(InFlight) <= 1
        /\ \A p \in InFlight : mutex = p
        /\ InFlight # {} =>
              /\ ~Collapses
              /\ PendingPayloads' \subseteq PendingPayloads
              /\ nextExec' > nextExec => InFlight' = {} ]_vars

\* C15 witness: the driver's ExecuteFunc call is running with a value collapsed
\* before, while a Cancel call waits for the mutex and one Collapse call is
\* still to come.
C15_Witness ==
    /\ pc[Driver] = "exec"
    /\ pc["c1"] = "ready"
    /\ calls = 1 /\ delivered[1] = 1

\* C16 -- Driver loop stop: once a Cancel call has closed ctx.Done(), the driver
\* does not come to the start of a pass again (it begins at most the one pass it
\* had already chosen in its select), its next wake-up takes it to the end of
\* the loop, which it reaches when every ExecuteFunc call returns, and from
\* there it takes no step any more: it is not restarted.
C16_DriverLoopStop ==
    /\ [][ /\ (ctxDone /\ pc'[Driver] = "ready") => pc[Driver] = "ready"
           /\ (ctxDone /\ pc[Driver] = "sleep") => pc'[Driver] \in {"sleep", "stopped"}
           /\ pc[Driver] = "stopped" => (pc'[Driver] = "stopped" /\ ~StepOf(Driver))
           /\ ctxDone => ctxDone' ]_vars
    /\ ctxDone ~> (pc[Driver] = "stopped")

\* C16 witness: the driver has stopped after one more pass, begun after the
\* Cancel call closed ctx.Done(), in which it handed a value to ExecuteFunc.
C16_Witness ==
    /\ pc[Driver] = "stopped"
    /\ late # {} /\ \E v \in late : delivered[v] = 1

\* Goroutine p examines an entry of its range loop in this step (keyed).
Examines(p) == variant = "keyed" /\ pc[p] = "iter" /\ todo'[p] # todo[p]

\* C17 as stated -- One flush per timed pass: keyed variant, RetentionDuration
\* and MaxDuration above 0: a non-forced pass hands at most one entry to
\* ExecuteFunc.
C17_Original ==
    (variant = "keyed" /\ RetentionDuration > 0 /\ MaxDuration > 0) =>
        Cardinality(got[Driver]) <= 1

\* C17 amended -- keyed variant, RetentionDuration and MaxDuration above 0: once
\* a non-forced pass has flushed an entry, every other entry it examines no
\* more than RetentionDuration and no more than MaxDuration after the reset of
\* lastExec and nextExec stays pending; a forced pass hands every entry it
\* examines to ExecuteFunc.
C17_OneFlushPerTimedPass ==
    [][ /\ ( /\ Examines(Driver) /\ got[Driver] # {}
             /\ RetentionDuration > 0 /\ MaxDuration > 0
             /\ now <= lastExec + RetentionDuration
             /\ now <= lastExec + MaxDuration )
           => (~Delivers(Driver) /\ Values' = Values)
        /\ \A p \in CancelCallers :
              (Examines(p) /\ ExecuteFunc # "nil") => Delivers(p) ]_vars

\* C17 witness: with RetentionDuration above 0, a non-forced pass over two
\* entries has flushed one and, with no time gone by since, has examined the
\* other and left it pending.
C17_Witness ==
    /\ variant = "keyed" /\ RetentionDuration > 0
    /\ mutex = Driver /\ pc[Driver] = "iter" /\ todo[Driver] = {}
    /\ Cardinality(snap[Driver]) = 2
    /\ Cardinality(got[Driver]) = 1
    /\ Cardinality(PendingPayloads) = 1
    /\ lastExec = now

\* C18 -- Nil ExecuteFunc, in both variants: no step of a driver pass or of a
\* Cancel call hands a value over, removes an entry or sets lastExec (lastExec
\* only grows older), so whatever was inserted stays pending; a Cancel call
\* that has returned has set IsCanceled, and every Cancel call that has started
\* returns.
C18_NilExecuteFunc ==
    /\ [][ ExecuteFunc = "nil" =>
              /\ DeliveredNow = {}
              /\ \A p \in Procs : pc'[p] # "exec"
              /\ PendingPayloads \subseteq PendingPayloads'
              /\ lastExec' <= lastExec
              /\ Collapses => PendingPayloads' # {}
              /\ pc'[Canceller] = "done" => IsCanceled' ]_vars
    /\ (ExecuteFunc = "nil" /\ pc[Canceller] = "ready")
          ~> (pc[Canceller] = "done" /\ IsCanceled)

\* C18 witness: with a nil ExecuteFunc, a Cancel call has returned and the
\* driver has stopped, time has gone by since construction, and the value
\* collapsed before the Cancel call is still pending.
C18_Witness ==
    /\ ExecuteFunc = "nil"
    /\ pc[Canceller] = "done" /\ IsCanceled
    /\ pc[Driver] = "stopped"
    /\ PendingPayloads = {1} /\ late = {}
    /\ lastExec < now

\* The pending values the driver's pass examines in this step.
ExaminedNow ==
    IF variant = "keyed" THEN {Values[k] : k \in todo[Driver] \ todo'[Driver]} \ {Nil}
    ELSE {Value} \ {Nil}

\* C19 as stated -- Stale ceiling: a value that Collapse stored more than
\* MaxDuration after lastExec is handed to ExecuteFunc by the driver pass that
\* examines it next (here with a non-nil ExecuteFunc and RetentionDuration
\* above 0, where the claim has its point).
C19_Original ==
    [][ ( /\ DriverExamines /\ ExaminedNow \cap stale # {}
          /\ ExecuteFunc # "nil" /\ RetentionDuration > 0 )
            => Delivers(Driver) ]_vars

\* C19 amended -- Stale ceiling: lastExec is set only when an ExecuteFunc call
\* returns (and at construction), a Collapse call leaves it alone; so, with a
\* non-nil ExecuteFunc, a driver pass hands over the pending entry it examines
\* whenever lastExec still lies more than MaxDuration in the past, however
\* recently the entry was collapsed; a value stored more than MaxDuration after
\* lastExec is passed over only after a flush has reset lastExec since.
C19_StaleCeiling ==
    [][ /\ lastExec' > lastExec => \E p \in Procs : pc[p] = "exec" /\ pc'[p] # "exec"
        /\ Collapses => lastExec' = lastExec
        /\ (DriverExamines /\ ExecuteFunc # "nil" /\ Before(lastExec + MaxDuration, now))
              => Delivers(Driver)
        /\ (DriverExamines /\ ExecuteFunc # "nil" /\ ExaminedNow \cap stale # {}
               /\ ~Delivers(Driver))
              => \E v \in Payloads : delivered[v] > 0 ]_vars

\* C19 witness: two values were collapsed, for two keys, at this very instant,
\* more than MaxDuration after lastExec and inside a retention window that is
\* still open; the driver's pass is handing over the first of them it examines.
C19_Witness ==
    /\ pc[Driver] = "exec"
    /\ calls = 2 /\ stale = {1, 2}
    /\ Cardinality(got[Driver]) = 1
    /\ lastCollapseAt = now
    /\ RetentionDuration > 0 /\ ~Before(nextExec, now)
    /\ Before(lastExec + MaxDuration, now)
    /\ ~ctxDone

\* Goroutine p waits, inside its ExecuteFunc call, for the mutex it holds.
Blocked(p) == mutex = p /\ pc[p] \in {"ready", "collapse"}

\* C20 -- Re-entrancy deadlock: ExecuteFunc runs with the mutex held by the
\* goroutine that calls it, so a Collapse or Cancel call made from inside
\* ExecuteFunc never gets the mutex: the goroutine stays where it is and keeps
\* the mutex, and from then on no Collapse call takes effect and no pass of a
\* Cancel call or of the driver gets past its Lock.
C20_ReentrancyDeadlock ==
    [][ /\ \A p \in InFlight : mutex = p
        /\ \A p \in Procs :
              Blocked(p) =>
                 /\ pc'[p] = pc[p] /\ mutex' = p
                 /\ ~Collapses
                 /\ \A q \in Procs : pc[q] = "ready" => pc'[q] = "ready"
                 /\ \A q \in Procs : ~ENABLED Lock(q)
                 /\ \A key \in Keys : ~ENABLED Collapse(key)
                 /\ ~ENABLED CollapseSlot
                 /\ PendingPayloads' = PendingPayloads ]_vars

\* C20 witness: the driver's ExecuteFunc call waits in Collapse for the mutex
\* the driver holds, a Cancel call made afterwards waits for the same mutex,
\* and further Collapse calls are still to come.
C20_Witness ==
    /\ pc[Driver] = "collapse" /\ mutex = Driver
    /\ pc["c1"] = "ready"
    /\ calls < MaxCalls

====
